---- MODULE Spec2Model ----
(***************************************************************************)
(* A model of the QR Code symbol encoder of tools_generate_qr.py:          *)
(* GF(256) arithmetic, Reed-Solomon remainder, byte-mode bit encoder,       *)
(* version selection, function-pattern placement, data placement, format   *)
(* information, penalty scoring and mask selection.                        *)
(*                                                                         *)
(* Python lists are modelled as functions over 0..n-1 (tables, matrix      *)
(* rows) or as sequences (bit buffers, codeword lists, polynomials; the    *)
(* element at Python index i is at index i+1).                             *)
(***************************************************************************)
EXTENDS Integers, Sequences, FiniteSets, TLC

VARIABLES
    pc,            \* position of the running call
    call,          \* arguments of the function under call (pure-function specifications)
    ret,           \* its returned value
    data,          \* main: the payload bytes
    version,       \* main: the chosen VersionInfo (or NoVersion)
    codewords,     \* main: data_codewords, then full_codewords
    matrix,        \* build_matrix: the function-pattern skeleton
    test_matrix,   \* build_matrix: the candidate of the current mask trial
    final_matrix,  \* build_matrix: the returned matrix
    mask,          \* build_matrix: loop variable of the 8 trials
    best_mask,     \* build_matrix: best_mask
    best_score,    \* build_matrix: best_score (None before the first trial)
    best_modules,  \* build_matrix: best_modules
    scores,        \* history: the score computed by each trial, in order
    data_writes,   \* history: set_data calls per cell made by the last draw_data
    error          \* the ValueError raised, or NoError

vars == << pc, call, ret, data, version, codewords, matrix, test_matrix,
           final_matrix, mask, best_mask, best_score, best_modules, scores,
           data_writes, error >>

(***************************************************************************)
(* Integer bit operations (Python ints are unbounded; every value here     *)
(* stays below 2^21).                                                      *)
(***************************************************************************)
RECURSIVE Pow2(_)
Pow2(n) == IF n = 0 THEN 1 ELSE 2 * Pow2(n - 1)

Shl(v, n) == v * Pow2(n)

Shr(v, n) == v \div Pow2(n)

RECURSIVE BitXor(_, _)
BitXor(a, b) ==
    IF a = 0 THEN b
    ELSE IF b = 0 THEN a
    ELSE (((a % 2) + (b % 2)) % 2) + 2 * BitXor(a \div 2, b \div 2)

RECURSIVE BitAnd(_, _)
BitAnd(a, b) ==
    IF a = 0 \/ b = 0 THEN 0
    ELSE ((a % 2) * (b % 2)) + 2 * BitAnd(a \div 2, b \div 2)

RECURSIVE BitOr(_, _)
BitOr(a, b) ==
    IF a = 0 THEN b
    ELSE IF b = 0 THEN a
    ELSE (IF a % 2 = 1 \/ b % 2 = 1 THEN 1 ELSE 0) + 2 * BitOr(a \div 2, b \div 2)

None == "None"

NoError == "NoError"

(***************************************************************************)
(* Loops.  for i in range(lo, hi): s = Body(s, i).  The iterations run in   *)
(* order; the range is split in halves only to keep the evaluation         *)
(* shallow, and the first half is computed before the second starts.       *)
(***************************************************************************)
RECURSIVE ForRange(_, _, _, _)
ForRange(Body(_, _), s, lo, hi) ==
    IF << s >> = << >> \/ hi <= lo THEN s
    ELSE IF hi = lo + 1 THEN Body(s, lo)
    ELSE LET mid == (lo + hi) \div 2
             left == ForRange(Body, s, lo, mid)
         IN  IF << left >> # << >> THEN ForRange(Body, left, mid, hi) ELSE s

(***************************************************************************)
(* Galois field GF(256)                                                    *)
(***************************************************************************)
POLY == 285

\* One iteration of the first loop of _init_tables; s.x is the running power.
InitTablesPower(s, i) ==
    LET x2 == Shl(s.x, 1)
    IN  [x   |-> IF BitAnd(x2, 256) # 0 THEN BitXor(x2, POLY) ELSE x2,
         exp |-> [s.exp EXCEPT ![i] = s.x],
         log |-> [s.log EXCEPT ![s.x] = i]]

\* One iteration of the second loop of _init_tables: the exp table doubled.
InitTablesDouble(exp, i) == [exp EXCEPT ![i] = exp[i - 255]]

init_tables ==
    LET t == ForRange(InitTablesPower,
                      [x |-> 1, exp |-> [i \in 0..511 |-> 0], log |-> [i \in 0..255 |-> 0]],
                      0, 255)
    IN  [exp |-> ForRange(InitTablesDouble, t.exp, 255, 512), log |-> t.log]

EXP_TABLE == init_tables.exp

LOG_TABLE == init_tables.log

\* The index gf_mul reads EXP_TABLE at, for nonzero operands.
gf_mul_index(x, y) == LOG_TABLE[x] + LOG_TABLE[y]

\* gf_mul without the zero test: a plausible slip.
gf_mul_nozero(x, y) == EXP_TABLE[gf_mul_index(x, y)]

gf_mul(x, y) ==
    IF x = 0 \/ y = 0 THEN 0 ELSE EXP_TABLE[gf_mul_index(x, y)]

(***************************************************************************)
(* Reed-Solomon                                                            *)
(***************************************************************************)
Zeros(n) == [k \in 1..n |-> 0]

\* poly_mul: res[i + j] ^= gf_mul(a, b) over i, then j.
poly_mul(p, q) ==
    ForRange(LAMBDA res, i:
                 ForRange(LAMBDA r, j:
                              [r EXCEPT ![i + j + 1] = BitXor(@, gf_mul(p[i + 1], q[j + 1]))],
                          res, 0, Len(q)),
             Zeros(Len(p) + Len(q) - 1), 0, Len(p))

\* rs_generator_poly with the roots taken one power up, 2^1 .. 2^degree: a
\* plausible slip (EXP_TABLE[i + 1]).
rs_generator_poly_shifted(degree) ==
    ForRange(LAMBDA result, i: poly_mul(result, << 1, EXP_TABLE[i + 1] >>),
             << 1 >>, 0, degree)

rs_generator_poly(degree) ==
    ForRange(LAMBDA result, i: poly_mul(result, << 1, EXP_TABLE[i] >>),
             << 1 >>, 0, degree)

\* The loop of rs_compute_remainder over the working buffer result.
RemainderLoop(d, generator) ==
    ForRange(LAMBDA result, i:
                 LET coef == result[i + 1]
                 IN  IF coef = 0 THEN result
                     ELSE ForRange(LAMBDA r, j:
                                       [r EXCEPT ![i + j + 1] =
                                            BitXor(@, gf_mul(generator[j + 1], coef))],
                                   result, 0, Len(generator)),
             d \o Zeros(Len(generator) - 1), 0, Len(d))

\* Python's seq[-k:]: the last k elements; the whole list when k = 0 or k > len.
LastSlice(s, k) ==
    IF k = 0 \/ k >= Len(s) THEN s ELSE SubSeq(s, Len(s) - k + 1, Len(s))

\* rs_compute_remainder returning one codeword too many (result[-len(generator):]).
rs_compute_remainder_long(d, generator) ==
    LastSlice(RemainderLoop(d, generator), Len(generator))

rs_compute_remainder(d, generator) ==
    LastSlice(RemainderLoop(d, generator), Len(generator) - 1)

(***************************************************************************)
(* Version table and byte-mode bit encoder                                 *)
(***************************************************************************)
VersionInfo(v, size, total, dcw, ecw) ==
    [version |-> v, size |-> size, total_codewords |-> total,
     data_codewords |-> dcw, ecc_codewords |-> ecw, ecc_blocks |-> 1]

VERSION_TABLE ==
    << VersionInfo(1, 21, 26, 19, 7),
       VersionInfo(2, 25, 44, 34, 10),
       VersionInfo(3, 29, 70, 55, 15),
       VersionInfo(4, 33, 100, 80, 20) >>

\* No VersionInfo: the value of version before choose_version returns one.
NoVersion == VersionInfo(0, 0, 0, 0, 0)

ECC_LEVEL_FORMAT == [L |-> 1, M |-> 0, Q |-> 3, H |-> 2]

Min(a, b) == IF a < b THEN a ELSE b

\* append_bits: the bits of value, from bit length-1 down to bit 0.
append_bits(bits, value, length) ==
    bits \o [k \in 1..length |-> Shr(value, length - k) % 2]

\* while cond(s): s = Body(s), for loops that end within bound iterations.
WhileLoop(Cond(_), Body(_), s0, bound) ==
    ForRange(LAMBDA s, k: IF Cond(s) THEN Body(s) ELSE s, s0, 0, bound)

\* The bits of encode_bytes before the capacity test: mode, length, payload.
EncodeHeaderAndData(d, v) ==
    LET mode == append_bits(<< >>, 4, 4)
        count == append_bits(mode, Len(d), IF v.version <= 9 THEN 8 ELSE 16)
    IN  ForRange(LAMBDA bits, i: append_bits(bits, d[i + 1], 8), count, 0, Len(d))

\* The terminator, then zero bits up to the byte boundary.
EncodeTerminate(bits, capacity) ==
    LET terminator == Min(4, capacity - Len(bits))
    IN  WhileLoop(LAMBDA b: Len(b) % 8 # 0, LAMBDA b: Append(b, 0),
                  append_bits(bits, 0, terminator), 8)

\* The pad byte of the idx-th alternative: pad_bytes = [0xEC, 0x11].
pad_bytes(idx) == IF idx = 0 THEN 236 ELSE 17

\* pad_bytes with the two bytes swapped: a plausible slip.
EncodePad_swapped(bits, capacity) ==
    WhileLoop(LAMBDA s: Len(s.bits) < capacity,
              LAMBDA s: [bits |-> append_bits(s.bits, pad_bytes(1 - s.idx), 8),
                         idx |-> 1 - s.idx],
              [bits |-> bits, idx |-> 0], capacity).bits

\* while len(bits) < capacity: extend with pad_bytes[idx]; idx ^= 1.
EncodePad(bits, capacity) ==
    WhileLoop(LAMBDA s: Len(s.bits) < capacity,
              LAMBDA s: [bits |-> append_bits(s.bits, pad_bytes(s.idx), 8),
                         idx |-> BitXor(s.idx, 1)],
              [bits |-> bits, idx |-> 0], capacity).bits

\* The packing loop: bits[i:i+8] for i in range(0, len(bits), 8), MSB first.
PackCodewords(bits) ==
    [k \in 1..((Len(bits) + 7) \div 8) |->
        ForRange(LAMBDA byte, j: BitOr(Shl(byte, 1), bits[j + 1]),
                 0, 8 * (k - 1), Min(8 * k, Len(bits)))]

\* encode_bytes: [raised, bits, codewords]; bits is the buffer the codewords pack.
encode_bytes(d, v) ==
    LET bits == EncodeHeaderAndData(d, v)
        capacity == v.data_codewords * 8
    IN  IF Len(bits) > capacity
        THEN [raised |-> TRUE, bits |-> bits, codewords |-> << >>]
        ELSE LET padded == EncodePad(EncodeTerminate(bits, capacity), capacity)
             IN  [raised |-> FALSE, bits |-> padded, codewords |-> PackCodewords(padded)]

\* choose_version scanning the table from the largest version: a plausible slip.
choose_version_descending(d) ==
    ForRange(LAMBDA s, i:
                 IF s.raised /\ ~encode_bytes(d, VERSION_TABLE[Len(VERSION_TABLE) - i]).raised
                 THEN [raised |-> FALSE, version |-> VERSION_TABLE[Len(VERSION_TABLE) - i]]
                 ELSE s,
             [raised |-> TRUE, version |-> NoVersion], 0, Len(VERSION_TABLE))

\* choose_version: the first version of the table encode_bytes accepts.
choose_version(d) ==
    ForRange(LAMBDA s, i:
                 IF s.raised /\ ~encode_bytes(d, VERSION_TABLE[i + 1]).raised
                 THEN [raised |-> FALSE, version |-> VERSION_TABLE[i + 1]]
                 ELSE s,
             [raised |-> TRUE, version |-> NoVersion], 0, Len(VERSION_TABLE))

(***************************************************************************)
(* Format information                                                      *)
(***************************************************************************)
FormatGenerator == 1335

FormatMask == 21522

\* reversed(range(10, -1, -1))[k]: range(10, -1, -1)[j] = 10 - j, reversed.
ReversedRange(k) == 10 - (10 - k)

format_info_bits(ecc_level, m) ==
    LET format_value == BitOr(Shl(ECC_LEVEL_FORMAT[ecc_level], 3), m)
        value == ForRange(LAMBDA v, k:
                              LET i == ReversedRange(k)
                              IN  IF Shr(v, i + 10) % 2 = 1
                                  THEN BitXor(v, Shl(FormatGenerator, i))
                                  ELSE v,
                          Shl(format_value, 10), 0, 11)
    IN  BitXor(BitOr(Shl(format_value, 10), value), FormatMask)

(***************************************************************************)
(* Symbol matrix.  modules[y][x] is None, True or False (an Optional[bool], *)
(* kept as three strings so that the tests against None are comparisons    *)
(* of like values); is_function[y][x] is a boolean.                        *)
(***************************************************************************)
True == "True"

False == "False"

Bool(b) == IF b THEN True ELSE False

QRMatrix(size) ==
    [size |-> size,
     modules |-> [y \in 0..(size - 1) |-> [x \in 0..(size - 1) |-> None]],
     is_function |-> [y \in 0..(size - 1) |-> [x \in 0..(size - 1) |-> FALSE]]]

set_function(m, x, y, value) ==
    [m EXCEPT !.modules[y][x] = value, !.is_function[y][x] = TRUE]

get(m, x, y) == m.modules[y][x]

FINDER_PATTERN ==
    << << 1, 1, 1, 1, 1, 1, 1 >>,
       << 1, 0, 0, 0, 0, 0, 1 >>,
       << 1, 0, 1, 1, 1, 0, 1 >>,
       << 1, 0, 1, 1, 1, 0, 1 >>,
       << 1, 0, 1, 1, 1, 0, 1 >>,
       << 1, 0, 0, 0, 0, 0, 1 >>,
       << 1, 1, 1, 1, 1, 1, 1 >> >>

ALIGNMENT_PATTERN ==
    << << 1, 1, 1, 1, 1 >>,
       << 1, 0, 0, 0, 1 >>,
       << 1, 0, 1, 0, 1 >>,
       << 1, 0, 0, 0, 1 >>,
       << 1, 1, 1, 1, 1 >> >>

\* ALIGNMENT_POSITIONS.get(version, [])
ALIGNMENT_POSITIONS(v) ==
    IF v = 2 THEN << 6, 18 >>
    ELSE IF v = 3 THEN << 6, 22 >>
    ELSE IF v = 4 THEN << 6, 26 >>
    ELSE << >>

\* The four separator cells place_finder visits for index i.
SeparatorOffsets(i) == << << -1, i >>, << 7, i >>, << i, -1 >>, << i, 7 >> >>

place_finder(matrix0, x, y) ==
    LET pattern ==
            ForRange(LAMBDA m1, dy:
                         ForRange(LAMBDA m2, dx:
                                      set_function(m2, x + dx, y + dy,
                                                   Bool(FINDER_PATTERN[dy + 1][dx + 1] = 1)),
                                  m1, 0, 7),
                     matrix0, 0, 7)
    IN  ForRange(LAMBDA m1, i:
                     ForRange(LAMBDA m2, k:
                                  LET xx == x + SeparatorOffsets(i)[k + 1][1]
                                      yy == y + SeparatorOffsets(i)[k + 1][2]
                                  IN  IF /\ 0 <= xx /\ xx < m2.size
                                         /\ 0 <= yy /\ yy < m2.size
                                         /\ get(m2, xx, yy) = None
                                      THEN set_function(m2, xx, yy, False)
                                      ELSE m2,
                              m1, 0, 4),
                 pattern, -1, 8)

place_alignment(matrix0, v) ==
    LET positions == ALIGNMENT_POSITIONS(v)
    IN  ForRange(LAMBDA m1, yi:
            ForRange(LAMBDA m2, xi:
                LET x == positions[xi + 1]
                    y == positions[yi + 1]
                IN  IF \/ (x <= 7 /\ y <= 7)
                       \/ (x >= m2.size - 8 /\ y <= 7)
                       \/ (x <= 7 /\ y >= m2.size - 8)
                    THEN m2
                    ELSE ForRange(LAMBDA m3, dy:
                             ForRange(LAMBDA m4, dx:
                                 set_function(m4, x - 2 + dx, y - 2 + dy,
                                              Bool(ALIGNMENT_PATTERN[dy + 1][dx + 1] = 1)),
                                 m3, 0, 5),
                             m2, 0, 5),
                m1, 0, Len(positions)),
            matrix0, 0, Len(positions))

place_timing(matrix0) ==
    ForRange(LAMBDA m1, i:
                 LET bit == Bool(i % 2 = 0)
                     row == IF get(m1, i, 6) = None THEN set_function(m1, i, 6, bit) ELSE m1
                 IN  IF get(row, 6, i) = None THEN set_function(row, 6, i, bit) ELSE row,
             matrix0, 8, matrix0.size - 8)

place_dark_module(matrix0) == set_function(matrix0, 8, matrix0.size - 8, True)

reserve_format_info(matrix0) ==
    LET size == matrix0.size
        first == ForRange(LAMBDA m1, i:
                              IF i # 6
                              THEN set_function(set_function(m1, 8, i, False), i, 8, False)
                              ELSE m1,
                          matrix0, 0, 9)
    IN  ForRange(LAMBDA m1, i:
                     IF i # 6
                     THEN LET m2 == set_function(m1, size - 1 - i, 8, False)
                              y == size - 1 - i
                          IN  IF y # size - 8 THEN set_function(m2, 8, y, False) ELSE m2
                     ELSE m1,
                 first, 0, 8)

\* Bit i of bits as a module value: ((bits >> i) & 1) == 1.
FormatBit(bits, i) == Bool(Shr(bits, i) % 2 = 1)

\* apply_format_info whose first loop runs one cell too far, onto the timing
\* row: a plausible slip (range(0, 7)).
apply_format_info_nogap(matrix0, ecc_level, m) ==
    LET bits == format_info_bits(ecc_level, m)
        size == matrix0.size
        a == ForRange(LAMBDA m1, i: set_function(m1, 8, i, FormatBit(bits, i)),
                      matrix0, 0, 7)
        b == set_function(a, 8, 7, FormatBit(bits, 6))
        c == set_function(b, 8, 8, FormatBit(bits, 7))
        d == set_function(c, 7, 8, FormatBit(bits, 8))
        e == ForRange(LAMBDA m1, i: set_function(m1, 14 - i, 8, FormatBit(bits, i)),
                      d, 9, 15)
        f == ForRange(LAMBDA m1, i: set_function(m1, size - 1 - i, 8, FormatBit(bits, i)),
                      e, 0, 8)
    IN  ForRange(LAMBDA m1, i: set_function(m1, 8, size - 7 + i, FormatBit(bits, i + 8)),
                 f, 0, 7)

apply_format_info(matrix0, ecc_level, m) ==
    LET bits == format_info_bits(ecc_level, m)
        size == matrix0.size
        a == ForRange(LAMBDA m1, i: set_function(m1, 8, i, FormatBit(bits, i)),
                      matrix0, 0, 6)
        b == set_function(a, 8, 7, FormatBit(bits, 6))
        c == set_function(b, 8, 8, FormatBit(bits, 7))
        d == set_function(c, 7, 8, FormatBit(bits, 8))
        e == ForRange(LAMBDA m1, i: set_function(m1, 14 - i, 8, FormatBit(bits, i)),
                      d, 9, 15)
        f == ForRange(LAMBDA m1, i: set_function(m1, size - 1 - i, 8, FormatBit(bits, i)),
                      e, 0, 8)
    IN  ForRange(LAMBDA m1, i: set_function(m1, 8, size - 7 + i, FormatBit(bits, i + 8)),
                 f, 0, 7)

(***************************************************************************)
(* Mask predicates and data placement                                      *)
(***************************************************************************)
\* apply_mask; a mask id outside 0..7 raises, which no caller here requests.
apply_mask(x, y, m) ==
    CASE m = 0 -> (x + y) % 2 = 0
      [] m = 1 -> y % 2 = 0
      [] m = 2 -> x % 3 = 0
      [] m = 3 -> (x + y) % 3 = 0
      [] m = 4 -> ((y \div 2) + (x \div 3)) % 2 = 0
      [] m = 5 -> ((x * y) % 2) + ((x * y) % 3) = 0
      [] m = 6 -> (((x * y) % 2) + ((x * y) % 3)) % 2 = 0
      [] m = 7 -> (((x + y) % 2) + ((x * y) % 3)) % 2 = 0

\* get_bit: (codewords[idx >> 3] >> (7 - (idx & 7))) & 1
get_bit(cw, idx) == Shr(cw[Shr(idx, 3) + 1], 7 - (idx % 8)) % 2

\* set_data without its test of the function flag: a plausible slip.
set_data_unguarded(d, x, y, value) ==
    [d EXCEPT !.matrix.modules[y][x] = value, !.writes[y][x] = @ + 1]

\* set_data on the placer's state d: raises on a function module.
set_data(d, x, y, value) ==
    IF d.matrix.is_function[y][x]
    THEN [d EXCEPT !.error = "Attempting to overwrite function module"]
    ELSE [d EXCEPT !.matrix.modules[y][x] = value, !.writes[y][x] = @ + 1]

\* The body of "for dx in range(2)" that stores a module only while codeword
\* bits remain: a plausible slip (set_data under "if bit_index < total_bits").
DrawCell_nopad(d, cw, m, dx) ==
    LET xx == d.x - dx
        have == d.bit_index < Len(cw) * 8
        bit == get_bit(cw, d.bit_index) = 1
        masked == IF apply_mask(xx, d.y, m) THEN ~bit ELSE bit
    IN  IF d.error # NoError \/ get(d.matrix, xx, d.y) # None \/ ~have THEN d
        ELSE set_data([d EXCEPT !.bit_index = @ + 1], xx, d.y, Bool(masked))

\* The body of "for dx in range(2)" at row d.y of the column pair d.x.
DrawCell(d, cw, m, dx) ==
    LET xx == d.x - dx
        have == d.bit_index < Len(cw) * 8
        bit == IF have THEN get_bit(cw, d.bit_index) = 1 ELSE FALSE
        masked == IF apply_mask(xx, d.y, m) THEN ~bit ELSE bit
    IN  IF d.error # NoError \/ get(d.matrix, xx, d.y) # None THEN d
        ELSE set_data([d EXCEPT !.bit_index = IF have THEN @ + 1 ELSE @],
                      xx, d.y, Bool(masked))

\* One iteration of "while 0 <= y < size".
DrawRow(d, cw, m) ==
    LET placed == ForRange(LAMBDA d1, dx: DrawCell(d1, cw, m, dx), d, 0, 2)
    IN  [placed EXCEPT !.y = @ + placed.direction]

\* One iteration of "while x > 0": a column pair, walked in d.direction.
DrawColumnPair(d, cw, m) ==
    LET size == d.matrix.size
        start == IF d.x = 6 THEN [d EXCEPT !.x = @ - 1] ELSE d
        walked == WhileLoop(LAMBDA d1: d1.error = NoError /\ 0 <= d1.y /\ d1.y < size,
                            LAMBDA d1: DrawRow(d1, cw, m), start, size)
    IN  IF walked.error # NoError THEN walked
        ELSE [walked EXCEPT !.y = @ - walked.direction,
                            !.direction = -walked.direction,
                            !.x = @ - 2]

\* The placer's state when draw_data starts on matrix0.
DrawStart(matrix0) ==
    [matrix |-> matrix0, bit_index |-> 0,
     x |-> matrix0.size - 1, y |-> matrix0.size - 1, direction |-> -1,
     writes |-> [y \in 0..(matrix0.size - 1) |-> [x \in 0..(matrix0.size - 1) |-> 0]],
     error |-> NoError]

\* The loops of draw_data.
DrawWalk(matrix0, cw, m) ==
    WhileLoop(LAMBDA d: d.error = NoError /\ d.x > 0,
              LAMBDA d: DrawColumnPair(d, cw, m),
              DrawStart(matrix0), matrix0.size)

\* draw_data: the matrix it leaves, the error it raises, its set_data calls.
draw_data(matrix0, cw, m) ==
    LET d == DrawWalk(matrix0, cw, m)
    IN  [matrix |-> d.matrix,
         writes |-> d.writes,
         error |-> IF d.error # NoError THEN d.error
                   ELSE IF d.bit_index # Len(cw) * 8
                        THEN "Did not place the expected number of bits"
                        ELSE NoError]

(***************************************************************************)
(* Penalty score                                                           *)
(***************************************************************************)
\* grid[y][x] = bool(matrix.modules[y][x])
Grid(m, x, y) == m.modules[y][x] = True

\* The cost of a run without its length term: a plausible slip (3 for
\* every run of 5 or more).
RunCost_flat(run_length) == IF run_length >= 5 THEN 3 ELSE 0

RunCost(run_length) == IF run_length >= 5 THEN 3 + (run_length - 5) ELSE 0

\* The run loop along one line; At(i) is the module at position i of the line.
LineRuns(At(_), size) ==
    LET r == ForRange(LAMBDA s, i:
                          IF At(i) = s.run_color
                          THEN [s EXCEPT !.run_length = @ + 1]
                          ELSE [run_color |-> At(i), run_length |-> 1,
                                penalty |-> s.penalty + RunCost(s.run_length)],
                      [run_color |-> At(0), run_length |-> 1, penalty |-> 0], 1, size)
    IN  r.penalty + RunCost(r.run_length)

PenaltyRuns(m) ==
    LET rows == ForRange(LAMBDA p, y: p + LineRuns(LAMBDA x: Grid(m, x, y), m.size),
                         0, 0, m.size)
    IN  ForRange(LAMBDA p, x: p + LineRuns(LAMBDA y: Grid(m, x, y), m.size),
                 rows, 0, m.size)

PenaltyBlocks(m) ==
    ForRange(LAMBDA p1, y:
                 ForRange(LAMBDA p2, x:
                              IF /\ Grid(m, x, y) = Grid(m, x + 1, y)
                                 /\ Grid(m, x + 1, y) = Grid(m, x, y + 1)
                                 /\ Grid(m, x, y + 1) = Grid(m, x + 1, y + 1)
                              THEN p2 + 3 ELSE p2,
                          p1, 0, m.size - 1),
             0, 0, m.size - 1)

pattern1 == << TRUE, FALSE, TRUE, TRUE, TRUE, FALSE, TRUE, FALSE, FALSE, FALSE, FALSE >>

pattern2 == << FALSE, FALSE, FALSE, FALSE, TRUE, FALSE, TRUE, TRUE, TRUE, FALSE, TRUE >>

\* line[i:i+11] == pattern
SliceIs(At(_), i, pattern) == \A k \in 0..10 : At(i + k) = pattern[k + 1]

LineFinders(At(_), size) ==
    ForRange(LAMBDA p, i:
                 IF SliceIs(At, i, pattern1) \/ SliceIs(At, i, pattern2)
                 THEN p + 40 ELSE p,
             0, 0, size - 10)

PenaltyFinders(m) ==
    LET rows == ForRange(LAMBDA p, y: p + LineFinders(LAMBDA x: Grid(m, x, y), m.size),
                         0, 0, m.size)
    IN  ForRange(LAMBDA p, x: p + LineFinders(LAMBDA y: Grid(m, x, y), m.size),
                 rows, 0, m.size)

Abs(n) == IF n < 0 THEN -n ELSE n

\* dark = sum(row.count(True) for row in grid)
DarkCount(m) ==
    ForRange(LAMBDA n, y:
                 ForRange(LAMBDA n2, x: IF Grid(m, x, y) THEN n2 + 1 ELSE n2,
                          n, 0, m.size),
             0, 0, m.size)

PenaltyBalance(m) ==
    LET total == m.size * m.size
    IN  (Abs(DarkCount(m) * 20 - total * 10) \div total) * 10

penalty_score(m) ==
    PenaltyRuns(m) + PenaltyBlocks(m) + PenaltyFinders(m) + PenaltyBalance(m)

(***************************************************************************)
(* Inputs                                                                  *)
(***************************************************************************)
MaxSeed == 1

MaxPayloadLen == 80

MaxRsLen == 6

MaxGridSize == 12

\* A payload of n bytes: all zero for seed 0, a byte progression otherwise.
Payload(n, seed) == [i \in 1..n |-> (seed * 65 + i * seed * 53) % 256]

\* Payload lengths of the encode calls: one for each version (6 and 21 bytes
\* give two masks the same least penalty), and one too long.
PayloadLens == {6, 21, 33, 54, 79}

\* The function-pattern skeleton build_matrix makes before the mask trials.
Skeleton(v) ==
    LET a == place_finder(QRMatrix(v.size), 0, 0)
        b == place_finder(a, v.size - 7, 0)
        c == place_finder(b, 0, v.size - 7)
        d == place_alignment(c, v.version)
        e == place_timing(d)
        f == place_dark_module(e)
    IN  reserve_format_info(f)

\* The skeleton of each version of the table, by version number.
Skeletons == [i \in 1..Len(VERSION_TABLE) |-> Skeleton(VERSION_TABLE[i])]

\* The versions whose skeletons take the set_data calls.
SetDataVersions == {1, 2}

EccSizes == {VERSION_TABLE[i].ecc_codewords : i \in 1..Len(VERSION_TABLE)}

\* A matrix variable before its QRMatrix is constructed.
NoMatrix == [size |-> 0, modules |-> << >>, is_function |-> << >>]

\* The arguments of a call; a call fills in the ones its function takes.
NoCall == [fn |-> "none", x |-> 0, y |-> 0, data |-> << >>, degree |-> 0,
           version |-> NoVersion, ecc_level |-> "", mask |-> 0,
           matrix |-> NoMatrix, value |-> None]

\* What a call returns; a call fills in the fields its function produces.
NoRet == [raised |-> FALSE, value |-> 0, index |-> 0, bits |-> << >>,
          codewords |-> << >>, version |-> NoVersion, remainder |-> << >>,
          full_codewords |-> << >>, matrix |-> NoMatrix, error |-> NoError,
          poly |-> << >>, parts |-> << >>]

\* best_score = None
NoScore == -1

Idle ==
    /\ pc = "idle"
    /\ call = NoCall
    /\ ret = NoRet
    /\ data = << >>
    /\ version = NoVersion
    /\ codewords = << >>
    /\ matrix = NoMatrix
    /\ test_matrix = NoMatrix
    /\ final_matrix = NoMatrix
    /\ mask = 0
    /\ best_mask = 0
    /\ best_score = NoScore
    /\ best_modules = << >>
    /\ scores = << >>
    /\ data_writes = << >>
    /\ error = NoError

mainVars == << data, version, codewords, matrix, test_matrix, final_matrix, mask,
               best_mask, best_score, best_modules, scores, data_writes, error >>

(***************************************************************************)
(* Calls of the pure functions, each on arguments drawn from bounded sets. *)
(***************************************************************************)
Returned(c, r) ==
    /\ pc' = "returned"
    /\ call' = c
    /\ ret' = r
    /\ UNCHANGED mainVars

CallGfMul ==
    /\ pc = "idle"
    /\ \E x \in 0..255, y \in 0..255 :
           Returned([NoCall EXCEPT !.fn = "gf_mul", !.x = x, !.y = y],
                    [NoRet EXCEPT !.value = gf_mul(x, y),
                                  !.index = IF x = 0 \/ y = 0 THEN -1
                                            ELSE gf_mul_index(x, y)])

CallRsComputeRemainder ==
    /\ pc = "idle"
    /\ \E degree \in EccSizes, n \in 0..MaxRsLen, seed \in 0..MaxSeed :
           Returned([NoCall EXCEPT !.fn = "rs_compute_remainder",
                                   !.data = Payload(n, seed), !.degree = degree],
                    [NoRet EXCEPT !.remainder =
                         rs_compute_remainder(Payload(n, seed), rs_generator_poly(degree))])

CallEncodeBytes ==
    /\ pc = "idle"
    /\ \E i \in 1..Len(VERSION_TABLE), n \in 0..MaxPayloadLen, seed \in 0..MaxSeed :
           LET r == encode_bytes(Payload(n, seed), VERSION_TABLE[i])
           IN  Returned([NoCall EXCEPT !.fn = "encode_bytes", !.data = Payload(n, seed),
                                       !.version = VERSION_TABLE[i]],
                        [NoRet EXCEPT !.raised = r.raised, !.bits = r.bits,
                                      !.codewords = r.codewords])

CallChooseVersion ==
    /\ pc = "idle"
    /\ \E n \in 0..MaxPayloadLen, seed \in 0..MaxSeed :
           LET r == choose_version(Payload(n, seed))
           IN  Returned([NoCall EXCEPT !.fn = "choose_version", !.data = Payload(n, seed)],
                        [NoRet EXCEPT !.raised = r.raised, !.version = r.version])

\* main up to the call of build_matrix: the codewords handed to it, if any.
MainCodewords(d) ==
    LET chosen == choose_version(d)
        data_codewords == encode_bytes(d, chosen.version).codewords
        generator == rs_generator_poly(chosen.version.ecc_codewords)
        remainder == rs_compute_remainder(data_codewords, generator)
    IN  IF chosen.raised
        THEN [NoRet EXCEPT !.raised = TRUE]
        ELSE [NoRet EXCEPT !.version = chosen.version, !.codewords = data_codewords,
                           !.remainder = remainder,
                           !.full_codewords = data_codewords \o remainder]

CallMainCodewords ==
    /\ pc = "idle"
    /\ \E n \in 0..MaxPayloadLen, seed \in 0..MaxSeed :
           Returned([NoCall EXCEPT !.fn = "main", !.data = Payload(n, seed)],
                    MainCodewords(Payload(n, seed)))

CallFormatInfoBits ==
    /\ pc = "idle"
    /\ \E ecc_level \in DOMAIN ECC_LEVEL_FORMAT, m \in 0..7 :
           Returned([NoCall EXCEPT !.fn = "format_info_bits", !.ecc_level = ecc_level,
                                   !.mask = m],
                    [NoRet EXCEPT !.value = format_info_bits(ecc_level, m)])

\* The cells set apart in the grids given to penalty_score.
GridFlips == {<< 0, 1 >>, << 2, 1 >>, << 4, 1 >>}

\* A fully placed grid for penalty_score: a base (the pattern of mask 0..7,
\* all light for 8, all dark for 9), optionally with row 5 holding pattern1
\* ("row") or column 5 holding pattern2 ("column") in its first 11 cells, and
\* with the cells of flips inverted.
TestGrid(size, base, overlay, flips) ==
    LET dark(x, y) ==
            LET b == IF base <= 7 THEN apply_mask(x, y, base) ELSE base = 9
                o == IF overlay = "row" /\ y = 5 /\ x <= 10 THEN pattern1[x + 1]
                     ELSE IF overlay = "column" /\ x = 5 /\ y <= 10 THEN pattern2[y + 1]
                     ELSE b
            IN  IF << x, y >> \in flips THEN ~o ELSE o
    IN  [size |-> size,
         modules |-> [y \in 0..(size - 1) |-> [x \in 0..(size - 1) |-> Bool(dark(x, y))]],
         is_function |-> [y \in 0..(size - 1) |-> [x \in 0..(size - 1) |-> FALSE]]]

\* penalty_score, with what each of its four sections adds to the penalty.
CallPenaltyScore ==
    /\ pc = "idle"
    /\ \E size \in 11..MaxGridSize, base \in 0..9, overlay \in {"none", "row", "column"},
          flips \in SUBSET GridFlips :
           LET m == TestGrid(size, base, overlay, flips)
           IN  Returned([NoCall EXCEPT !.fn = "penalty_score", !.matrix = m],
                        [NoRet EXCEPT !.value = penalty_score(m),
                                      !.parts = << PenaltyRuns(m), PenaltyBlocks(m),
                                                   PenaltyFinders(m), PenaltyBalance(m) >>])

\* What main hands to build_matrix for each payload of the encode calls.
MainRuns ==
    {[data |-> Payload(n, seed), main |-> MainCodewords(Payload(n, seed))] :
        n \in PayloadLens, seed \in 0..MaxSeed}

\* set_data on any cell of a skeleton, with either value.
CallSetData ==
    /\ pc = "idle"
    /\ \E i \in SetDataVersions :
           LET skeleton == Skeletons[i]
           IN  \E x \in 0..(skeleton.size - 1), y \in 0..(skeleton.size - 1),
                  value \in {True, False} :
                   LET r == set_data(DrawStart(skeleton), x, y, value)
                   IN  Returned([NoCall EXCEPT !.fn = "set_data", !.x = x, !.y = y,
                                               !.matrix = skeleton, !.value = value],
                                [NoRet EXCEPT !.matrix = r.matrix, !.error = r.error])

\* draw_data as build_matrix calls it: on the skeleton of the chosen version,
\* with main's codewords, for each of the 8 masks.
CallDrawData ==
    /\ pc = "idle"
    /\ \E run \in MainRuns :
           LET main == run.main
               skeleton == Skeletons[main.version.version]
           IN  /\ ~main.raised
               /\ \E m \in 0..7 :
                      LET r == draw_data(skeleton, main.full_codewords, m)
                      IN  Returned([NoCall EXCEPT !.fn = "draw_data",
                                                  !.data = run.data,
                                                  !.matrix = skeleton, !.mask = m],
                                   [NoRet EXCEPT !.matrix = r.matrix, !.error = r.error])

CallRsGeneratorPoly ==
    /\ pc = "idle"
    /\ \E degree \in EccSizes :
           Returned([NoCall EXCEPT !.fn = "rs_generator_poly", !.degree = degree],
                    [NoRet EXCEPT !.poly = rs_generator_poly(degree)])

NextCalls ==
    \/ CallRsGeneratorPoly
    \/ CallPenaltyScore
    \/ CallSetData
    \/ CallDrawData
    \/ CallGfMul
    \/ CallRsComputeRemainder
    \/ CallEncodeBytes
    \/ CallChooseVersion
    \/ CallMainCodewords
    \/ CallFormatInfoBits

SpecCalls == Idle /\ [][NextCalls]_vars

CalledAndReturned(fn) == pc = "returned" /\ call.fn = fn

(***************************************************************************)
(* main: choose_version, encode_bytes, Reed-Solomon, then build_matrix     *)
(* step by step.  The ECC level is 'L', as main passes it.                 *)
(***************************************************************************)
Init ==
    /\ pc = "main"
    /\ call = NoCall
    /\ ret = NoRet
    /\ data \in {Payload(n, seed) : n \in PayloadLens, seed \in 0..MaxSeed}
    /\ version = NoVersion
    /\ codewords = << >>
    /\ matrix = NoMatrix
    /\ test_matrix = NoMatrix
    /\ final_matrix = NoMatrix
    /\ mask = 0
    /\ best_mask = 0
    /\ best_score = NoScore
    /\ best_modules = << >>
    /\ scores = << >>
    /\ data_writes = << >>
    /\ error = NoError

MainChooseVersion ==
    /\ pc = "main"
    /\ LET r == choose_version(data)
       IN  IF r.raised
           THEN /\ pc' = "raised"
                /\ error' = "Data too long for supported versions"
                /\ UNCHANGED version
           ELSE /\ pc' = "encode"
                /\ version' = r.version
                /\ UNCHANGED error
    /\ UNCHANGED << call, ret, data, codewords, matrix, test_matrix, final_matrix, mask,
                    best_mask, best_score, best_modules, scores, data_writes >>

MainEncodeBytes ==
    /\ pc = "encode"
    /\ LET r == encode_bytes(data, version)
       IN  IF r.raised
           THEN /\ pc' = "raised"
                /\ error' = "Data too long for selected version"
                /\ UNCHANGED codewords
           ELSE /\ pc' = "rs"
                /\ codewords' = r.codewords
                /\ UNCHANGED error
    /\ UNCHANGED << call, ret, data, version, matrix, test_matrix, final_matrix, mask,
                    best_mask, best_score, best_modules, scores, data_writes >>

MainReedSolomon ==
    /\ pc = "rs"
    /\ pc' = "finder_top_left"
    /\ codewords' = codewords \o rs_compute_remainder(
                                     codewords, rs_generator_poly(version.ecc_codewords))
    /\ UNCHANGED << call, ret, data, version, matrix, test_matrix, final_matrix, mask,
                    best_mask, best_score, best_modules, scores, data_writes, error >>

\* A step of build_matrix on the skeleton.
SkeletonStep(from, to, m) ==
    /\ pc = from
    /\ pc' = to
    /\ matrix' = m
    /\ UNCHANGED << call, ret, data, version, codewords, test_matrix, final_matrix, mask,
                    best_mask, best_score, best_modules, scores, data_writes, error >>

BuildFinderTopLeft ==
    SkeletonStep("finder_top_left", "finder_top_right",
                 place_finder(QRMatrix(version.size), 0, 0))

BuildFinderTopRight ==
    SkeletonStep("finder_top_right", "finder_bottom_left",
                 place_finder(matrix, version.size - 7, 0))

BuildFinderBottomLeft ==
    SkeletonStep("finder_bottom_left", "alignment",
                 place_finder(matrix, 0, version.size - 7))

BuildAlignment ==
    SkeletonStep("alignment", "timing", place_alignment(matrix, version.version))

BuildTiming == SkeletonStep("timing", "dark_module", place_timing(matrix))

BuildDarkModule == SkeletonStep("dark_module", "reserve", place_dark_module(matrix))

BuildReserveFormatInfo ==
    SkeletonStep("reserve", "trial_copy", reserve_format_info(matrix))

\* A new QRMatrix holding [row[:] for row in ...] of the modules and of the
\* function flags of m: new rows with the same cells.
CopyOf(m) ==
    [size |-> m.size,
     modules |-> [y \in DOMAIN m.modules |-> [x \in DOMAIN m.modules[y] |-> m.modules[y][x]]],
     is_function |-> [y \in DOMAIN m.is_function |->
                         [x \in DOMAIN m.is_function[y] |-> m.is_function[y][x]]]]

\* The skeleton if a candidate's rows were the skeleton's own row lists rather
\* than copies of them: a plausible slip (no row[:]); it sees every write.
Shared(skeleton, candidate) == candidate

\* The skeleton after draw_data or apply_format_info has written to a
\* candidate made by CopyOf: the candidate's rows are lists of their own, so
\* no write to them reaches the skeleton.
Unshared(skeleton, candidate) == skeleton

\* The candidate of the current mask: a copy of the skeleton.
TrialCopy ==
    /\ pc = "trial_copy"
    /\ pc' = "trial_draw"
    /\ test_matrix' = CopyOf(matrix)
    /\ UNCHANGED << call, ret, data, version, codewords, matrix, final_matrix, mask,
                    best_mask, best_score, best_modules, scores, data_writes, error >>

TrialDrawData ==
    /\ pc = "trial_draw"
    /\ LET r == draw_data(test_matrix, codewords, mask)
       IN  /\ test_matrix' = r.matrix
           /\ matrix' = Unshared(matrix, r.matrix)
           /\ data_writes' = r.writes
           /\ error' = r.error
           /\ pc' = IF r.error = NoError THEN "trial_format" ELSE "raised"
    /\ UNCHANGED << call, ret, data, version, codewords, final_matrix, mask,
                    best_mask, best_score, best_modules, scores >>

TrialFormatInfo ==
    /\ pc = "trial_format"
    /\ pc' = "trial_score"
    /\ test_matrix' = apply_format_info(test_matrix, "L", mask)
    /\ matrix' = Unshared(matrix, test_matrix')
    /\ UNCHANGED << call, ret, data, version, codewords, final_matrix, mask,
                    best_mask, best_score, best_modules, scores, data_writes, error >>

\* The comparison that accepts ties: a plausible slip (score <= best_score).
Improves_ties(score, best) == best = NoScore \/ score <= best

\* best_score is None or score < best_score
Improves(score, best) == best = NoScore \/ score < best

TrialScore ==
    /\ pc = "trial_score"
    /\ LET score == penalty_score(test_matrix)
       IN  /\ scores' = Append(scores, score)
           /\ IF Improves(score, best_score)
              THEN /\ best_score' = score
                   /\ best_mask' = mask
                   /\ best_modules' = test_matrix.modules
              ELSE UNCHANGED << best_score, best_mask, best_modules >>
    /\ IF mask < 7
       THEN mask' = mask + 1 /\ pc' = "trial_copy"
       ELSE mask' = mask /\ pc' = "final_copy"
    /\ UNCHANGED << call, ret, data, version, codewords, matrix, test_matrix,
                    final_matrix, data_writes, error >>

\* The matrix to return: a copy of the skeleton.
FinalCopy ==
    /\ pc = "final_copy"
    /\ pc' = "final_draw"
    /\ final_matrix' = CopyOf(matrix)
    /\ UNCHANGED << call, ret, data, version, codewords, matrix, test_matrix, mask,
                    best_mask, best_score, best_modules, scores, data_writes, error >>

FinalDrawData ==
    /\ pc = "final_draw"
    /\ LET r == draw_data(final_matrix, codewords, best_mask)
       IN  /\ final_matrix' = r.matrix
           /\ matrix' = Unshared(matrix, r.matrix)
           /\ data_writes' = r.writes
           /\ error' = r.error
           /\ pc' = IF r.error = NoError THEN "final_format" ELSE "raised"
    /\ UNCHANGED << call, ret, data, version, codewords, test_matrix, mask,
                    best_mask, best_score, best_modules, scores >>

FinalFormatInfo ==
    /\ pc = "final_format"
    /\ pc' = "done"
    /\ final_matrix' = apply_format_info(final_matrix, "L", best_mask)
    /\ matrix' = Unshared(matrix, final_matrix')
    /\ UNCHANGED << call, ret, data, version, codewords, test_matrix, mask,
                    best_mask, best_score, best_modules, scores, data_writes, error >>

Next ==
    \/ MainChooseVersion
    \/ MainEncodeBytes
    \/ MainReedSolomon
    \/ BuildFinderTopLeft
    \/ BuildFinderTopRight
    \/ BuildFinderBottomLeft
    \/ BuildAlignment
    \/ BuildTiming
    \/ BuildDarkModule
    \/ BuildReserveFormatInfo
    \/ TrialCopy
    \/ TrialDrawData
    \/ TrialFormatInfo
    \/ TrialScore
    \/ FinalCopy
    \/ FinalDrawData
    \/ FinalFormatInfo

Spec == Init /\ [][Next]_vars

(***************************************************************************)
(* C1.  format_info_bits('L', m), for every mask id m in 0..7, is the       *)
(* BCH(15,5) code word of the descriptor d = (0b01 << 3) | m under the      *)
(* generator 0x537 (the 15-bit multiple of the generator whose top 5 bits  *)
(* are d, i.e. d << 10 | remainder), XORed with 0b101010000010010.          *)
(***************************************************************************)
\* Carry-less product of q and g: the product of two polynomials over GF(2).
Gf2Product(q, g) ==
    ForRange(LAMBDA acc, i: IF Shr(q, i) % 2 = 1 THEN BitXor(acc, Shl(g, i)) ELSE acc,
             0, 0, 5)

\* The multiple of 0x537 below 2^15 whose top five bits are d.
BchCodeWord(d) ==
    CHOOSE w \in {Gf2Product(q, 1335) : q \in 0..31} : w \div 1024 = d

C1_FormatInfoIsBch ==
    (CalledAndReturned("format_info_bits") /\ call.ecc_level = "L")
        => ret.value = BitXor(BchCodeWord(8 + call.mask), 21522)

(***************************************************************************)
(* C2.  For every version of the table and every payload of n bytes with   *)
(* 12 + 8n <= data_codewords * 8, encode_bytes returns exactly             *)
(* data_codewords codewords packing a buffer of data_codewords * 8 bits:   *)
(* mode 0100, the 8-bit length, the payload, a 4-bit terminator (which     *)
(* ends on a byte boundary), then pad bytes 0xEC, 0x11 alternating from    *)
(* 0xEC.                                                                   *)
(***************************************************************************)
\* Bit k (1-based) of the buffer C2 describes, for payload d.
ExpectedBit(d, k) ==
    LET n == Len(d)
        j == k - (16 + 8 * n) - 1
    IN  IF k <= 4 THEN << 0, 1, 0, 0 >>[k]
        ELSE IF k <= 12 THEN (n \div Pow2(12 - k)) % 2
        ELSE IF k <= 12 + 8 * n
             THEN (d[((k - 13) \div 8) + 1] \div Pow2(7 - ((k - 13) % 8))) % 2
        ELSE IF k <= 16 + 8 * n THEN 0
        ELSE ((IF (j \div 8) % 2 = 0 THEN 236 ELSE 17) \div Pow2(7 - (j % 8))) % 2

Fits(d, v) == 12 + 8 * Len(d) <= v.data_codewords * 8

C2_PaddingExact ==
    (CalledAndReturned("encode_bytes") /\ Fits(call.data, call.version))
        => /\ ~ret.raised
           /\ Len(ret.codewords) = call.version.data_codewords
           /\ Len(ret.bits) = call.version.data_codewords * 8
           /\ \A k \in 1..Len(ret.bits) : ret.bits[k] = ExpectedBit(call.data, k)
           /\ \A c \in 1..Len(ret.codewords) :
                  ret.codewords[c] =
                      128 * ret.bits[8 * c - 7] + 64 * ret.bits[8 * c - 6]
                      + 32 * ret.bits[8 * c - 5] + 16 * ret.bits[8 * c - 4]
                      + 8 * ret.bits[8 * c - 3] + 4 * ret.bits[8 * c - 2]
                      + 2 * ret.bits[8 * c - 1] + ret.bits[8 * c]

\* A payload that leaves room for at least two pad bytes has been encoded.
C2_Witness ==
    /\ CalledAndReturned("encode_bytes")
    /\ Fits(call.data, call.version)
    /\ Len(call.data) = 5
    /\ call.version.version = 1
    /\ ret.codewords[8] = 236
    /\ ret.codewords[9] = 17
    /\ ret.codewords[19] = 17

(***************************************************************************)
(* C3.  choose_version returns the smallest version of 1..4 whose capacity *)
(* data_codewords * 8 is at least 4 + 8 + 8 * len(payload), and raises     *)
(* (no version, build_matrix not reached) exactly when version 4 does not  *)
(* fit; 5 bytes select version 1 (19 data, 26 total codewords), 20 bytes   *)
(* select version 2.                                                       *)
(***************************************************************************)
FittingVersions(d) ==
    {i \in 1..4 : VERSION_TABLE[i].data_codewords * 8 >= 4 + 8 + 8 * Len(d)}

SmallestFitting(d) ==
    CHOOSE i \in FittingVersions(d) : \A j \in FittingVersions(d) : i <= j

C3_SmallestVersion ==
    /\ CalledAndReturned("choose_version") =>
           IF FittingVersions(call.data) = {}
           THEN ret.raised /\ ret.version = NoVersion
           ELSE /\ ~ret.raised
                /\ ret.version = VERSION_TABLE[SmallestFitting(call.data)]
                /\ ret.version.version = SmallestFitting(call.data)
                /\ (Len(call.data) = 5 => ret.version.version = 1)
                /\ (Len(call.data) = 20 => ret.version.version = 2)
    /\ CalledAndReturned("main") =>
           IF FittingVersions(call.data) = {}
           THEN ret.raised /\ ret.version = NoVersion /\ ret.full_codewords = << >>
           ELSE /\ ~ret.raised
                /\ ret.version.version = SmallestFitting(call.data)
                /\ (Len(call.data) = 5 =>
                       Len(ret.codewords) = 19 /\ Len(ret.full_codewords) = 26)

\* Both outcomes at the edge of the table: 78 bytes fit version 4, 79 raise.
C3_Witness ==
    /\ CalledAndReturned("choose_version")
    /\ \/ Len(call.data) = 79 /\ ret.raised
       \/ Len(call.data) = 20 /\ ret.version.version = 2

(***************************************************************************)
(* C4.  When build_matrix has returned, no cell of the returned matrix is  *)
(* undetermined: get(x, y) is light or dark for all 0 <= x, y < size,      *)
(* every function-flagged cell has a value, and every non-function cell    *)
(* was given its value by exactly one set_data call of the data placer;    *)
(* no cell is written twice as data.                                       *)
(***************************************************************************)
Coords(m) == 0..(m.size - 1)

C4_NoUndeterminedCell ==
    pc = "done" =>
        /\ final_matrix.size = version.size
        /\ \A x \in Coords(final_matrix), y \in Coords(final_matrix) :
               /\ get(final_matrix, x, y) \in {True, False}
               /\ data_writes[y][x] <= 1
               /\ ~final_matrix.is_function[y][x] => data_writes[y][x] = 1
               /\ ~matrix.is_function[y][x] => data_writes[y][x] = 1

\* A version 1 symbol is complete: its placer ran out of codeword bits two
\* cells before the end of the walk and filled them all the same.
C4_Witness ==
    /\ pc = "done"
    /\ version.version = 1
    /\ Len(codewords) = 26
    /\ data_writes[0][0] = 0
    /\ data_writes[20][20] = 1
    /\ data_writes[12][0] = 1

(***************************************************************************)
(* C5.  build_matrix returns the matrix of the mask whose penalty score is *)
(* minimal among the 8 masks, the lowest mask id among equal scores: the   *)
(* chosen mask is the least of the 8 (score, mask id) pairs in             *)
(* lexicographic order, and the returned matrix is cell for cell the       *)
(* matrix that was scored for it, format info included.                    *)
(***************************************************************************)
LexLess(s1, m1, s2, m2) == s1 < s2 \/ (s1 = s2 /\ m1 <= m2)

C5_MinimalPenaltyMask ==
    pc = "done" =>
        /\ Len(scores) = 8
        /\ best_mask \in 0..7
        /\ best_score = scores[best_mask + 1]
        /\ \A m \in 0..7 : LexLess(best_score, best_mask, scores[m + 1], m)
        /\ final_matrix.modules = best_modules
        /\ penalty_score(final_matrix) = best_score

\* A symbol for which a later mask scored the same least penalty as the one
\* chosen.
C5_Witness ==
    /\ pc = "done"
    /\ \E m \in (best_mask + 1)..7 : scores[m + 1] = best_score

(***************************************************************************)
(* C6.  As stated: once a cell is flagged as a function module its value   *)
(* never changes, whatever the later stage (function-pattern steps, data   *)
(* placement, format-info writing).  What holds: a flagged cell stays      *)
(* flagged; function-pattern steps and data placement never store a        *)
(* different value into it; format-info writing stores new values only     *)
(* into the cells of the format-info strips, which it is there to fill.    *)
(***************************************************************************)
\* The cells apply_format_info is meant to write on a symbol of this size.
FormatInfoCells(size) ==
    {<< 8, i >> : i \in (0..8) \ {6}} \cup {<< i, 8 >> : i \in (0..8) \ {6}}
    \cup {<< size - 1 - i, 8 >> : i \in 0..7}
    \cup {<< 8, size - 7 + i >> : i \in 0..6}

\* Every cell flagged in m1 is flagged in m2 with the same value, the cells
\* of open excepted for the value.
FlaggedKept(m1, m2, open) ==
    \A x \in Coords(m1), y \in Coords(m1) :
        m1.is_function[y][x] =>
            /\ m2.is_function[y][x]
            /\ << x, y >> \notin open => m2.modules[y][x] = m1.modules[y][x]

PatternStep ==
    pc \in {"finder_top_right", "finder_bottom_left", "alignment", "timing",
            "dark_module", "reserve"}

StagesKeepFlagged(open) ==
    /\ PatternStep => FlaggedKept(matrix, matrix', {})
    /\ pc \in {"trial_copy", "trial_draw"} => FlaggedKept(matrix, test_matrix', {})
    /\ pc \in {"final_copy", "final_draw"} => FlaggedKept(matrix, final_matrix', {})
    /\ pc = "trial_format" => FlaggedKept(test_matrix, test_matrix', open)
    /\ pc = "final_format" => FlaggedKept(final_matrix, final_matrix', open)

C9_FormatCellsReserved ==
    /\ pc = "trial_draw" =>
           \A c \in FormatInfoCells(matrix.size) :
               /\ matrix.is_function[c[2]][c[1]]
               /\ get(matrix, c[1], c[2]) \in {True, False}
    /\ pc \in {"trial_format", "final_format"} =>
           \A c \in FormatInfoCells(matrix.size) : data_writes[c[2]][c[1]] = 0

(***************************************************************************)
(* C10.  Walking the returned matrix in the placer's zigzag order (column  *)
(* pairs from the bottom-right corner, column 6 skipped, direction         *)
(* reversed at each pair) and taking the cells that are not                *)
(* function-flagged, the k-th such cell holds bit k of the codeword        *)
(* sequence (MSB first) XOR the chosen mask at the cell, for all           *)
(* k < total_codewords * 8.                                                *)
(***************************************************************************)
\* The idx-th cell (from 0) of the zigzag walk of a symbol of this size.
ZigzagCell(size, idx) ==
    LET pair == idx \div (2 * size)
        row == (idx % (2 * size)) \div 2
        right == IF size - 1 - 2 * pair <= 6 THEN size - 2 - 2 * pair
                 ELSE size - 1 - 2 * pair
    IN  << right - (idx % 2), IF pair % 2 = 0 THEN size - 1 - row ELSE row >>

ZigzagCells(size) == [k \in 1..((size - 1) * size) |-> ZigzagCell(size, k - 1)]

IsDataCell(c) == ~final_matrix.is_function[c[2]][c[1]]

C10_DataRecoverable ==
    pc = "done" =>
        LET cells == SelectSeq(ZigzagCells(final_matrix.size), IsDataCell)
        IN  /\ Len(cells) >= Len(codewords) * 8
            /\ \A k \in 0..(Len(codewords) * 8 - 1) :
                   get(final_matrix, cells[k + 1][1], cells[k + 1][2])
                       = Bool((get_bit(codewords, k) = 1)
                              # apply_mask(cells[k + 1][1], cells[k + 1][2], best_mask))

(***************************************************************************)
(* C7.  gf_mul(a, 0) = 0, gf_mul(1, a) = a and gf_mul(a, b) = gf_mul(b, a)  *)
(* for all a, b in 0..255, and the index log[a] + log[b] read for nonzero  *)
(* operands lies inside the 512-entry exp table.                           *)
(***************************************************************************)
C7_GfMulLaws ==
    CalledAndReturned("gf_mul") =>
        /\ (call.y = 0 => ret.value = 0)
        /\ (call.x = 1 => ret.value = call.y)
        /\ ret.value = gf_mul(call.y, call.x)
        /\ ((call.x # 0 /\ call.y # 0) =>
               ret.index \in 0..511 /\ ret.index \in DOMAIN EXP_TABLE)

\* A product whose index lies in the doubled half of the exp table.
C7_Witness ==
    /\ CalledAndReturned("gf_mul")
    /\ call.x # 0 /\ call.y # 0
    /\ ret.index = 508
    /\ ret.value # 0

(***************************************************************************)
(* C8.  rs_compute_remainder(data, rs_generator_poly(d)) has exactly d     *)
(* codewords, each in 0..255, for any data (the empty one included) and    *)
(* d in {7, 10, 15, 20}; in main the data codewords followed by the        *)
(* remainder are exactly total_codewords of the chosen version.            *)
(***************************************************************************)
C8_RemainderLength ==
    /\ CalledAndReturned("rs_compute_remainder") =>
           /\ Len(ret.remainder) = call.degree
           /\ \A k \in 1..Len(ret.remainder) : ret.remainder[k] \in 0..255
    /\ (CalledAndReturned("main") /\ ~ret.raised) =>
           /\ Len(ret.codewords) = ret.version.data_codewords
           /\ Len(ret.remainder) = ret.version.ecc_codewords
           /\ \A k \in 1..Len(ret.remainder) : ret.remainder[k] \in 0..255
           /\ Len(ret.full_codewords) = ret.version.total_codewords

\* A remainder of nonempty data, with a nonzero codeword in it.
C8_Witness ==
    /\ CalledAndReturned("rs_compute_remainder")
    /\ Len(call.data) = 3
    /\ call.degree = 20
    /\ \E k \in 1..Len(ret.remainder) : ret.remainder[k] # 0

(***************************************************************************)
(* C11.  set_data(x, y, v) on a function-flagged cell raises the placement *)
(* error and leaves that cell's value and flag, and every other cell,      *)
(* unchanged; draw_data, called as a full encode calls it (on the skeleton *)
(* of the chosen version, with the encode's codewords, for every mask),    *)
(* never raises that error.                                                *)
(***************************************************************************)
PlacementError == "Attempting to overwrite function module"

C11_SetDataGuardsFunctionCells ==
    /\ CalledAndReturned("set_data") =>
           IF call.matrix.is_function[call.y][call.x]
           THEN ret.error = PlacementError /\ ret.matrix = call.matrix
           ELSE /\ ret.error = NoError
                /\ ret.matrix = [call.matrix EXCEPT !.modules[call.y][call.x] = call.value]
    /\ CalledAndReturned("draw_data") =>
           /\ ret.error # PlacementError
           /\ ret.matrix.is_function = call.matrix.is_function

\* set_data was refused on a dark function cell it was asked to turn light.
C11_Witness ==
    /\ CalledAndReturned("set_data")
    /\ call.matrix.is_function[call.y][call.x]
    /\ call.matrix.modules[call.y][call.x] = True
    /\ call.value = False
    /\ ret.error = PlacementError

(***************************************************************************)
(* C12.  penalty_score of a fully placed grid is the sum of four costs:    *)
(* (1) 3 + (L - 5) for each maximal same-colour run of length L >= 5 in    *)
(* every row and column, (2) 3 for every 2x2 window of four equal modules, *)
(* (3) 40 for every 11-module row or column window equal to 10111010000 or *)
(* 00001011101, (4) floor(|dark*20 - total*10| / total) * 10.  A single    *)
(* run of 6 in a grid with no other cost adds exactly 4; a grid with       *)
(* dark*2 = total adds 0 for (4).                                          *)
(***************************************************************************)
RefDark(m, x, y) == m.modules[y][x] = True

\* Cell k of line l in direction dir: a row (cells (k, l)) or a column.
RefLine(m, dir, l, k) == IF dir = "row" THEN RefDark(m, k, l) ELSE RefDark(m, l, k)

\* The maximal same-colour runs of at least 5 cells: << dir, line, first, last >>.
RefLongRuns(m) ==
    {r \in {"row", "column"} \X Coords(m) \X Coords(m) \X Coords(m) :
        /\ r[4] - r[3] + 1 >= 5
        /\ RefLine(m, r[1], r[2], r[4]) = RefLine(m, r[1], r[2], r[3])
        /\ r[3] = 0 \/ RefLine(m, r[1], r[2], r[3] - 1) # RefLine(m, r[1], r[2], r[3])
        /\ r[4] = m.size - 1
               \/ RefLine(m, r[1], r[2], r[4] + 1) # RefLine(m, r[1], r[2], r[3])
        /\ \A k \in r[3]..r[4] : RefLine(m, r[1], r[2], k) = RefLine(m, r[1], r[2], r[3])}

\* Sum over the long runs of 3 + (L - 5) = L - 2, counted one unit at a time.
RefRunCost(runs, size) ==
    Cardinality({u \in runs \X (1..size) : u[2] <= u[1][4] - u[1][3] + 1 - 2})

RefBlockCost(m) ==
    3 * Cardinality({c \in (0..(m.size - 2)) \X (0..(m.size - 2)) :
                        /\ RefDark(m, c[1], c[2]) = RefDark(m, c[1] + 1, c[2])
                        /\ RefDark(m, c[1], c[2]) = RefDark(m, c[1], c[2] + 1)
                        /\ RefDark(m, c[1], c[2]) = RefDark(m, c[1] + 1, c[2] + 1)})

\* 10111010000 and 00001011101
RefFinderWindows == {<< 1, 0, 1, 1, 1, 0, 1, 0, 0, 0, 0 >>, << 0, 0, 0, 0, 1, 0, 1, 1, 1, 0, 1 >>}

RefFinderCost(m) ==
    40 * Cardinality({w \in {"row", "column"} \X Coords(m) \X (0..(m.size - 11))
                            \X RefFinderWindows :
                         \A k \in 0..10 : RefLine(m, w[1], w[2], w[3] + k) = (w[4][k + 1] = 1)})

RefDarkCount(m) == Cardinality({c \in Coords(m) \X Coords(m) : RefDark(m, c[1], c[2])})

RefBalanceCost(m) ==
    LET n == RefDarkCount(m) * 20 - m.size * m.size * 10
    IN  ((IF n < 0 THEN -n ELSE n) \div (m.size * m.size)) * 10

C12_PenaltyIsSumOfRules ==
    CalledAndReturned("penalty_score") =>
        LET runs == RefLongRuns(call.matrix)
        IN  /\ ret.parts = << RefRunCost(runs, call.matrix.size),
                              RefBlockCost(call.matrix),
                              RefFinderCost(call.matrix), RefBalanceCost(call.matrix) >>
            /\ ret.value = ret.parts[1] + ret.parts[2] + ret.parts[3] + ret.parts[4]
            /\ (\E r \in runs : runs = {r} /\ r[4] - r[3] + 1 = 6) => ret.parts[1] = 4
            /\ RefDarkCount(call.matrix) * 2 = call.matrix.size * call.matrix.size
                   => ret.parts[4] = 0

\* The score of a grid whose only cost is one run of 6, and which is half dark
\* but for three cells.
C12_Witness ==
    /\ CalledAndReturned("penalty_score")
    /\ call.matrix.size = 12
    /\ ret.parts = << 4, 0, 0, 0 >>
    /\ ret.value = 4
    /\ RefDarkCount(call.matrix) = 75
    /\ \E r \in RefLongRuns(call.matrix) :
           RefLongRuns(call.matrix) = {r} /\ r[4] - r[3] + 1 = 6

(***************************************************************************)
(* C13.  The function-pattern skeleton build_matrix makes once is never    *)
(* modified by the 8 mask trials or by the final rebuild: through every    *)
(* step after reserve_format_info its cell values and function flags stay  *)
(* as reserve_format_info left them, and every candidate (and the matrix   *)
(* to return) starts as an identical copy of it, whatever the earlier      *)
(* trials wrote.                                                           *)
(***************************************************************************)
AfterSkeleton ==
    pc \in {"trial_copy", "trial_draw", "trial_format", "trial_score",
            "final_copy", "final_draw", "final_format"}

SkeletonUntouched ==
    /\ AfterSkeleton => matrix' = matrix
    /\ pc = "reserve" => matrix' = reserve_format_info(matrix)
    /\ pc = "trial_copy" => test_matrix' = matrix
    /\ pc = "final_copy" => final_matrix' = matrix

RefEval(p, x) ==
    ForRange(LAMBDA acc, k: BitXor(gf_mul(acc, x), p[k + 1]), 0, 0, Len(p))

C14_GeneratorRoots ==
    CalledAndReturned("rs_generator_poly") =>
        /\ call.degree \in {7, 10, 15, 20}
        /\ Len(ret.poly) = call.degree + 1
        /\ ret.poly[1] = 1
        /\ \A k \in 1..Len(ret.poly) : ret.poly[k] \in 0..255
        /\ \A i \in 0..(call.degree - 1) : RefEval(ret.poly, EXP_TABLE[i]) = 0
        /\ \A x \in 0..255 :
               RefEval(ret.poly, x) = 0
                   <=> \E i \in 0..(call.degree - 1) : x = EXP_TABLE[i]

\* The generator of degree 7, the one of a version 1 symbol at level L.
C14_Witness ==
    /\ CalledAndReturned("rs_generator_poly")
    /\ call.degree = 7
    /\ ret.poly = << 1, 127, 122, 154, 164, 11, 68, 117 >>
    /\ RefEval(ret.poly, 64) = 0
    /\ RefEval(ret.poly, 128) # 0

====
